---- MODULE Spec2Model ----
(***************************************************************************)
(* Model of src/app.py: the Streamlit script that writes an uploaded       *)
(* lecture video to a temporary file, extracts its audio, transcribes it,  *)
(* asks a generative model for a JSON analysis and renders the result.     *)
(*                                                                         *)
(* Text is a sequence of one-character strings.  Positions in the JSON     *)
(* decoder are 0-based, as in Python: the character at position i of s is  *)
(* s[i+1].  The alphabet of the model has no digits, no backslash, no '-', *)
(* no 'N' and no 'I', so the decoder's number, escape and NaN/Infinity     *)
(* branches are not modelled; everything else of json.loads is.            *)
(***************************************************************************)
EXTENDS Integers, Sequences, FiniteSets, TLC

\* ------------------------------------------------------------------ text

\* str.strip() and the JSON decoder's WHITESPACE, restricted to the alphabet.
WHITESPACE == {" ", "\n"}

\* The grave accent character (U+0060).  A TLA+ string literal cannot hold it,
\* so this one character of the alphabet is written as a named token.
Tick == "GRAVE"

\* The two literals of app.py lines 64 and 66: three grave accents followed by
\* json, and three grave accents.
FenceOpen == <<Tick, Tick, Tick, "j", "s", "o", "n">>
FenceClose == <<Tick, Tick, Tick>>

\* s[a:b] of Python, 0 <= a; clamps b to len(s).
Slice(s, a, b) ==
    LET hi == IF b > Len(s) THEN Len(s) ELSE b
    IN  IF a >= hi THEN <<>> ELSE SubSeq(s, a + 1, hi)

\* s[i:i+1] of Python: the character at 0-based position i, "" past the end.
Ch(s, i) == IF i >= 0 /\ i < Len(s) THEN s[i + 1] ELSE ""

\* str.startswith(p)
StartsWith(s, p) == Len(s) >= Len(p) /\ SubSeq(s, 1, Len(p)) = p

\* str.endswith(p)
EndsWith(s, p) == Len(s) >= Len(p) /\ SubSeq(s, Len(s) - Len(p) + 1, Len(s)) = p

RECURSIVE LStrip(_)
LStrip(s) == IF s # <<>> /\ Head(s) \in WHITESPACE THEN LStrip(Tail(s)) ELSE s

RECURSIVE RStrip(_)
RStrip(s) ==
    IF s # <<>> /\ s[Len(s)] \in WHITESPACE THEN RStrip(SubSeq(s, 1, Len(s) - 1)) ELSE s

\* str.strip()
Strip(s) == RStrip(LStrip(s))

\* Number of characters app.py line 65 cuts from the front (response_text[7:]).
FenceOpenCut == 7

\* Number of characters app.py line 67 cuts from the back (response_text[:-3]).
FenceCloseCut == 3

\* A slip in lines 64-65: the opening marker is cut as if it were as long as
\* the closing one, which leaves the language tag in the text.
StripLeadingFenceShort(t) ==
    IF StartsWith(t, FenceOpen) THEN Slice(t, FenceCloseCut, Len(t)) ELSE t

\* app.py lines 64-65
StripLeadingFence(t) ==
    IF StartsWith(t, FenceOpen) THEN Slice(t, FenceOpenCut, Len(t)) ELSE t

\* app.py lines 66-67; t[:-3] is empty when t has fewer than 3 characters.
StripTrailingFence(t) ==
    IF EndsWith(t, FenceClose) THEN Slice(t, 0, Len(t) - FenceCloseCut) ELSE t

\* app.py lines 63-67: the text handed to json.loads.
RecoverText(raw) == StripTrailingFence(StripLeadingFence(Strip(raw)))

\* sep.join(items) for a sequence of texts.
RECURSIVE Join(_, _)
Join(sep, items) ==
    IF items = <<>> THEN <<>>
    ELSE IF Len(items) = 1 THEN items[1]
    ELSE items[1] \o sep \o Join(sep, Tail(items))

\* ------------------------------------------------------------ JSON values

\* Python values json.loads can return, each a record [t, v]: None, True,
\* False, str (v: its characters), list (v: its items), dict (v: its
\* (key, value) pairs in insertion order, keys unique).
None == [t |-> "null", v |-> <<>>]
PyTrue == [t |-> "true", v |-> <<>>]
PyFalse == [t |-> "false", v |-> <<>>]
PyStr(chars) == [t |-> "str", v |-> chars]
PyList(items) == [t |-> "list", v |-> items]
PyDict(pairs) == [t |-> "dict", v |-> pairs]

\* dict[key] = val: replaces the value of an existing key in place, else appends.
DictPut(pairs, key, val) ==
    IF \E i \in 1..Len(pairs) : pairs[i].k = key
    THEN [i \in 1..Len(pairs) |->
            IF pairs[i].k = key THEN [k |-> key, v |-> val] ELSE pairs[i]]
    ELSE Append(pairs, [k |-> key, v |-> val])

\* key in d
HasKey(d, key) == d.t = "dict" /\ \E i \in 1..Len(d.v) : d.v[i].k = key

\* d[key] for a dict d that has the key.
DictGet(d, key) == d.v[CHOOSE i \in 1..Len(d.v) : d.v[i].k = key].v

\* bool(x): app.py line 124, `if analysis_result:`.
Truthy(x) ==
    CASE x.t = "null" -> FALSE
      [] x.t = "false" -> FALSE
      [] x.t = "true" -> TRUE
      [] OTHER -> Len(x.v) > 0

\* ----------------------------------------------------------- json.loads

ParseOk(val, end) == [ok |-> TRUE, val |-> val, pos |-> end, msg |-> ""]
ParseErr(msg, pos) == [ok |-> FALSE, val |-> None, pos |-> pos, msg |-> msg]

RECURSIVE SkipWs(_, _)
SkipWs(s, i) == IF Ch(s, i) \in WHITESPACE THEN SkipWs(s, i + 1) ELSE i

\* First position >= i holding a double quote or a control character; len(s)
\* when there is none.
RECURSIVE StringTerminator(_, _)
StringTerminator(s, i) ==
    IF i >= Len(s) \/ Ch(s, i) \in {"\"", "\n"} THEN i ELSE StringTerminator(s, i + 1)

\* scanstring: the string whose opening quote is at position begin.
ScanString(s, begin) ==
    LET t == StringTerminator(s, begin + 1)
    IN  IF t >= Len(s) THEN ParseErr("Unterminated string starting at", begin)
        ELSE IF Ch(s, t) # "\"" THEN ParseErr("Invalid control character at", t)
        ELSE ParseOk(PyStr(Slice(s, begin + 1, t)), t + 1)

RECURSIVE ScanOnce(_, _)
RECURSIVE ObjectPairs(_, _, _)
RECURSIVE ArrayItems(_, _, _)

\* JSONObject: end is the position after the opening brace.
JSONObject(s, end) ==
    LET e == SkipWs(s, end)
    IN  IF Ch(s, e) = "}" THEN ParseOk(PyDict(<<>>), e + 1)
        ELSE IF Ch(s, e) # "\""
        THEN ParseErr("Expecting property name enclosed in double quotes", e)
        ELSE ObjectPairs(s, e, <<>>)

\* The loop of JSONObject: q is the position of the opening quote of the next key.
ObjectPairs(s, q, pairs) ==
    LET key == ScanString(s, q)
    IN  IF ~key.ok THEN key
        ELSE LET c == SkipWs(s, key.pos)
             IN  IF Ch(s, c) # ":" THEN ParseErr("Expecting ':' delimiter", c)
                 ELSE LET val == ScanOnce(s, SkipWs(s, c + 1))
                      IN  IF ~val.ok THEN val
                          ELSE LET d == SkipWs(s, val.pos)
                                   more == DictPut(pairs, key.val.v, val.val)
                               IN  IF Ch(s, d) = "}" THEN ParseOk(PyDict(more), d + 1)
                                   ELSE IF Ch(s, d) # ","
                                   THEN ParseErr("Expecting ',' delimiter", d)
                                   ELSE LET n == SkipWs(s, d + 1)
                                        IN  IF Ch(s, n) # "\""
                                            THEN ParseErr("Expecting property name enclosed in double quotes", n)
                                            ELSE ObjectPairs(s, n, more)

\* JSONArray: end is the position after the opening bracket.
JSONArray(s, end) ==
    LET e == SkipWs(s, end)
    IN  IF Ch(s, e) = "]" THEN ParseOk(PyList(<<>>), e + 1) ELSE ArrayItems(s, e, <<>>)

\* The loop of JSONArray: i is the position of the next item.
ArrayItems(s, i, items) ==
    LET val == ScanOnce(s, i)
    IN  IF ~val.ok THEN val
        ELSE LET d == SkipWs(s, val.pos)
                 more == Append(items, val.val)
             IN  IF Ch(s, d) = "]" THEN ParseOk(PyList(more), d + 1)
                 ELSE IF Ch(s, d) # "," THEN ParseErr("Expecting ',' delimiter", d)
                 ELSE ArrayItems(s, SkipWs(s, d + 1), more)

\* scan_once: the value starting at position idx.
ScanOnce(s, idx) ==
    LET c == Ch(s, idx)
    IN  CASE c = "\"" -> ScanString(s, idx)
          [] c = "{" -> JSONObject(s, idx + 1)
          [] c = "[" -> JSONArray(s, idx + 1)
          [] c = "n" /\ Slice(s, idx, idx + 4) = <<"n", "u", "l", "l">> ->
                ParseOk(None, idx + 4)
          [] c = "t" /\ Slice(s, idx, idx + 4) = <<"t", "r", "u", "e">> ->
                ParseOk(PyTrue, idx + 4)
          [] c = "f" /\ Slice(s, idx, idx + 5) = <<"f", "a", "l", "s", "e">> ->
                ParseOk(PyFalse, idx + 5)
          [] OTHER -> ParseErr("Expecting value", idx)

\* JSONDecoder.decode: one value, whitespace around it, nothing after it.
Decode(s) ==
    LET r == ScanOnce(s, SkipWs(s, 0))
    IN  IF ~r.ok THEN r
        ELSE LET e == SkipWs(s, r.pos)
             IN  IF e # Len(s) THEN ParseErr("Extra data", e) ELSE r

\* Number of newlines in s[0:pos].
RECURSIVE CountNewlines(_, _)
CountNewlines(s, pos) ==
    IF pos <= 0 THEN 0
    ELSE CountNewlines(s, pos - 1) + (IF Ch(s, pos - 1) = "\n" THEN 1 ELSE 0)

\* Characters between the last newline before pos and pos.
RECURSIVE SinceNewline(_, _)
SinceNewline(s, pos) ==
    IF pos <= 0 \/ Ch(s, pos - 1) = "\n" THEN 0 ELSE SinceNewline(s, pos - 1) + 1

\* str(e) of a JSONDecodeError: "msg: line L column C (char P)".
DecodeErrorText(s, r) ==
    [msg |-> r.msg,
     lineno |-> CountNewlines(s, r.pos) + 1,
     colno |-> SinceNewline(s, r.pos) + 1,
     pos |-> r.pos]

\* json.loads(s): [ok, val] on success, [ok, err] when JSONDecodeError is raised.
json_loads(s) ==
    LET r == Decode(s)
    IN  IF r.ok THEN [ok |-> TRUE, val |-> r.val, err |-> <<>>]
        ELSE [ok |-> FALSE, val |-> None, err |-> <<DecodeErrorText(s, r)>>]

\* ------------------------------------------------------------ the inputs

\* Number of distinct temporary file names tempfile can hand out.
NumNames == 2

\* Largest number of entries in the categories list of a model response.
MaxCats == 3

\* Largest max_categories the truncation claim is stated for.
MaxK == 2

TempNames == 1..NumNames

\* Category labels a response can hold, in the order the model lists them.
Labels == << <<"X">>, <<"Y">>, <<"Z">>, <<"X", "X">>, <<"Y", "Y">>, <<"Z", "Z">> >>

\* What whisper can return as result['text']: nothing (silence) or some text.
Transcripts == {<<>>, <<"h", "i">>}

\* Why model.generate_content can raise.
ServiceCauses == {"network", "auth", "quota"}

KeySummary == <<"s", "u", "m", "m", "a", "r", "y">>
KeyKeywords == <<"k", "e", "y", "w", "o", "r", "d", "s">>
KeyCategories == <<"c", "a", "t", "e", "g", "o", "r", "i", "e", "s">>

Quote(chars) == <<"\"">> \o chars \o <<"\"">>

\* A JSON array of strings, written without spaces.
DumpList(items) ==
    <<"[">> \o Join(<<",">>, [i \in 1..Len(items) |-> Quote(items[i])]) \o <<"]">>

\* A JSON object, written without spaces, of the (key, JSON text) pairs given.
DumpObject(pairs) ==
    <<"{">>
    \o Join(<<",">>, [i \in 1..Len(pairs) |-> Quote(pairs[i][1]) \o <<":">> \o pairs[i][2]])
    \o <<"}">>

\* The JSON object the prompt asks for (app.py lines 44-48), with the summary
\* and the keywords present or not, and ncat categories (-1: no categories).
UpstreamObject(hasSummary, hasKeywords, ncat) ==
    DumpObject(
        (IF hasSummary THEN << <<KeySummary, Quote(<<"s">>)>> >> ELSE <<>>)
        \o (IF hasKeywords
            THEN << <<KeyKeywords, DumpList(<< <<"a">>, <<"b">> >>)>> >> ELSE <<>>)
        \o (IF ncat >= 0
            THEN << <<KeyCategories, DumpList(SubSeq(Labels, 1, ncat))>> >> ELSE <<>>))

UpstreamObjects ==
    {UpstreamObject(TRUE, TRUE, n) : n \in -1..MaxCats}
    \cup {UpstreamObject(FALSE, TRUE, 1), UpstreamObject(TRUE, FALSE, 1),
          UpstreamObject(TRUE, FALSE, -1), UpstreamObject(FALSE, FALSE, -1)}

\* How the model wraps its JSON: bare, in a json fence, with one of the two
\* markers missing, with whitespace around the fence, in a fence with no tag.
Wrappings == {"plain", "fenced", "open_only", "close_only", "padded", "untagged"}

Wrap(w, body) ==
    CASE w = "plain" -> body
      [] w = "fenced" -> FenceOpen \o <<"\n">> \o body \o <<"\n">> \o FenceClose
      [] w = "open_only" -> FenceOpen \o <<"\n">> \o body
      [] w = "close_only" -> body \o <<"\n">> \o FenceClose
      [] w = "padded" ->
            <<" ">> \o FenceOpen \o <<"\n">> \o body \o <<"\n">> \o FenceClose \o <<"\n">>
      [] OTHER -> FenceClose \o <<"\n">> \o body \o <<"\n">> \o FenceClose

\* Responses that are no JSON object: prose, JSON of another type, fences
\* around nothing, a doubled fence.
OtherResponses ==
    {<<"n", "o", "t", " ", "j", "s", "o", "n">>,
     <<"n", "o", "p", "e">>,
     <<>>,
     <<"n", "u", "l", "l">>,
     <<"t", "r", "u", "e">>,
     <<"[", "]">>,
     <<"[", "\"", "X", "\"", "]">>,
     <<"\"", "s", "\"">>,
     FenceOpen,
     FenceClose,
     FenceOpen \o FenceClose,
     FenceOpen \o <<Tick, Tick>>,
     FenceOpen \o FenceOpen \o <<"{", "}">> \o FenceClose \o FenceClose,
     <<"{", "\"", "s", "\"", ":", "}">>}

\* The texts response.text can be.
Responses == {Wrap(w, o) : w \in Wrappings, o \in UpstreamObjects} \cup OtherResponses

\* json.loads of every text lines 63-67 can hand it, computed once.
LoadsTable == [t \in {RecoverText(r) : r \in Responses} |-> json_loads(t)]

\* json.loads(t), app.py line 69.
Loads(t) == IF t \in DOMAIN LoadsTable THEN LoadsTable[t] ELSE json_loads(t)

\* ------------------------------------------------- exceptions and widgets

\* An exception: its class and, in text, what str(e) shows of it.
Exception(type, text) == [type |-> type, text |-> text]

\* One element on the page: the Streamlit call (w), which message or field it
\* shows (m) and the values formatted into it (arg).
Elem(w, m, arg) == [w |-> w, m |-> m, arg |-> arg]

\* The separator of the two join calls, app.py lines 128 and 134.
JoinSep == <<"IDEOGRAPHIC COMMA">>

\* num_keywords of the call at app.py line 121.
NumKeywords == 10

\* A temporary file: the name tempfile chose and what was appended to it.
VideoPath(n) == [name |-> n, suffix |-> ""]

\* app.py line 112: audio_path = video_path + ".wav"
AudioPathOf(p) == [p EXCEPT !.suffix = ".wav"]

\* app.py lines 81-99: what every run of the script shows before it looks at
\* the upload.
PageTop(key, ffmpeg) ==
    <<Elem("title", "title", <<>>), Elem("info", "intro", <<>>)>>
    \o (IF ~key THEN <<Elem("error", "api_key_missing", <<>>)>>
        ELSE IF ~ffmpeg THEN <<Elem("error", "ffmpeg_missing", <<>>)>>
        ELSE <<Elem("file_uploader", "upload", <<>>)>>)

\* app.py lines 73-75: the handler of generate_analysis, for every exception
\* alike: one error message holding str(e), and None returned.
AnalysisExceptHandler(e) ==
    [ui |-> <<Elem("error", "gemini_or_parse_error", e.text)>>, ret |-> None]

\* A slip in lines 141-143: the handler swallows the exception and shows
\* nothing.
PipelineExceptHandlerSilent(e) == <<>>

\* app.py lines 141-143: the handler of the pipeline.
PipelineExceptHandler(e) ==
    <<Elem("error", "processing_error", e.text), Elem("error", "file_may_be_corrupt", <<>>)>>

\* A slip in the try of line 106: each statement guarded on its own, so that
\* the script goes on with the next one after a failure.
TryNextIgnoring(ok, nxt) == nxt

\* The try of app.py line 106: a statement that raises passes control to the
\* except clause at line 141 instead of the next statement.
TryNext(ok, nxt) == IF ok THEN nxt ELSE "except"

\* ------------------------------------------------------------- rendering

\* analysis_result[key], app.py lines 128, 131 and 134.
Subscript(x, key) ==
    IF x.t = "dict"
    THEN IF HasKey(x, key) THEN [ok |-> TRUE, val |-> DictGet(x, key), exc |-> <<>>]
         ELSE [ok |-> FALSE, val |-> None, exc |-> <<Exception("KeyError", <<key>>)>>]
    ELSE [ok |-> FALSE, val |-> None, exc |-> <<Exception("TypeError", <<"subscript">>)>>]

\* sep.join(x): x iterated must yield strings.
JoinValue(x) ==
    CASE x.t = "list" ->
            IF \A i \in 1..Len(x.v) : x.v[i].t = "str"
            THEN [ok |-> TRUE, val |-> Join(JoinSep, [i \in 1..Len(x.v) |-> x.v[i].v]),
                  exc |-> <<>>]
            ELSE [ok |-> FALSE, val |-> <<>>, exc |-> <<Exception("TypeError", <<"join">>)>>]
      [] x.t = "str" ->
            [ok |-> TRUE, val |-> Join(JoinSep, [i \in 1..Len(x.v) |-> <<x.v[i]>>]),
             exc |-> <<>>]
      [] x.t = "dict" ->
            [ok |-> TRUE, val |-> Join(JoinSep, [i \in 1..Len(x.v) |-> x.v[i].k]),
             exc |-> <<>>]
      [] OTHER ->
            [ok |-> FALSE, val |-> <<>>, exc |-> <<Exception("TypeError", <<"join">>)>>]

\* app.py lines 127-128 and 133-134: a subheader, then the joined field.
RenderJoined(res, key, m) ==
    LET head == <<Elem("subheader", m, <<>>)>>
        f == Subscript(res, key)
    IN  IF ~f.ok THEN [ui |-> head, exc |-> f.exc]
        ELSE LET j == JoinValue(f.val)
             IN  IF ~j.ok THEN [ui |-> head, exc |-> j.exc]
                 ELSE [ui |-> head \o <<Elem("markdown", m, <<j.val>>)>>, exc |-> <<>>]

\* app.py lines 130-131.
RenderSummary(res) ==
    LET head == <<Elem("subheader", "summary", <<>>)>>
        f == Subscript(res, KeySummary)
    IN  IF ~f.ok THEN [ui |-> head, exc |-> f.exc]
        ELSE [ui |-> head \o <<Elem("info", "summary", <<f.val>>)>>, exc |-> <<>>]

\* app.py lines 124-139: what is put on the page for analysis_result, the
\* content of status_text, and the exception that ended it, if one did.
RenderResult(res, text) ==
    IF ~Truthy(res)
    THEN [ui |-> <<>>, status |-> <<Elem("error", "no_analysis_result", <<>>)>>, exc |-> <<>>]
    ELSE LET st == <<Elem("success", "done", <<>>)>>
             a == RenderJoined(res, KeyCategories, "categories")
             b == RenderSummary(res)
             c == RenderJoined(res, KeyKeywords, "keywords")
             d == <<Elem("expander", "transcript", <<>>), Elem("text_area", "transcript", <<text>>)>>
         IN  IF a.exc # <<>> THEN [ui |-> a.ui, status |-> st, exc |-> a.exc]
             ELSE IF b.exc # <<>> THEN [ui |-> a.ui \o b.ui, status |-> st, exc |-> b.exc]
             ELSE IF c.exc # <<>>
             THEN [ui |-> a.ui \o b.ui \o c.ui, status |-> st, exc |-> c.exc]
             ELSE [ui |-> a.ui \o b.ui \o c.ui \o d, status |-> st, exc |-> <<>>]

\* ------------------------------------------------------------- the state

VARIABLES
    pc,               \* where the script is; "idle": the run is over
    api_key,          \* whether API_KEY is set (line 86)
    ffmpeg_exists,    \* whether ffmpeg.exe is there (line 93)
    fs,               \* the temporary files that exist
    cache,            \* st.cache_data of transcribe_video: name -> text
    tmp_file,         \* the file NamedTemporaryFile created (line 102)
    video_path,       \* line 104
    audio_path,       \* line 112
    video_clip,       \* line 111: "unbound", "open" or "closed"
    transcribed_text, \* line 117
    prompt,           \* what was sent to the model (line 59)
    response,         \* response.text (line 63)
    response_text,    \* lines 63-67
    analysis_result,  \* line 121
    exc,              \* the exception being handled
    ui,               \* the elements on the page, in order
    status_text,      \* the placeholder of line 108
    progress_bar,     \* line 107
    failed,           \* which steps of this run have failed
    trace,            \* the stages this run has started, in order
    done,             \* the stages this run has completed
    api_calls         \* calls of model.generate_content in this run

vars ==
    <<pc, api_key, ffmpeg_exists, fs, cache, tmp_file, video_path, audio_path,
      video_clip, transcribed_text, prompt, response, response_text,
      analysis_result, exc, ui, status_text, progress_bar, failed, trace, done,
      api_calls>>

env == <<api_key, ffmpeg_exists>>
analysis == <<prompt, response, response_text, analysis_result, api_calls>>
paths == <<tmp_file, video_path, audio_path>>

\* A variable that may be unbound holds <<>> or <<value>>.
Bound(x) == x # <<>>

\* The state after the first run of the script, with no file uploaded yet.
Init ==
    /\ pc = "idle"
    /\ api_key \in BOOLEAN
    /\ ffmpeg_exists \in BOOLEAN
    /\ fs = {}
    /\ cache = [n \in TempNames |-> <<>>]
    /\ tmp_file = <<>>
    /\ video_path = <<>>
    /\ audio_path = <<>>
    /\ video_clip = "unbound"
    /\ transcribed_text = <<>>
    /\ prompt = <<>>
    /\ response = <<>>
    /\ response_text = <<>>
    /\ analysis_result = <<>>
    /\ exc = <<>>
    /\ ui = PageTop(api_key, ffmpeg_exists)
    /\ status_text = <<>>
    /\ progress_bar = <<>>
    /\ failed = {}
    /\ trace = <<>>
    /\ done = <<>>
    /\ api_calls = 0

\* The page offers the uploader (line 96 was reached in the last run).
UploaderShown == \E i \in 1..Len(ui) : ui[i].w = "file_uploader"

\* The user uploads a file: the script runs again from the top, with fresh
\* variables, up to line 101.
Upload ==
    /\ pc = "idle"
    /\ UploaderShown
    /\ pc' = "write_tmp"
    /\ tmp_file' = <<>>
    /\ video_path' = <<>>
    /\ audio_path' = <<>>
    /\ video_clip' = "unbound"
    /\ transcribed_text' = <<>>
    /\ prompt' = <<>>
    /\ response' = <<>>
    /\ response_text' = <<>>
    /\ analysis_result' = <<>>
    /\ exc' = <<>>
    /\ ui' = PageTop(api_key, ffmpeg_exists)
    /\ status_text' = <<>>
    /\ progress_bar' = <<>>
    /\ failed' = {}
    /\ trace' = <<>>
    /\ done' = <<>>
    /\ api_calls' = 0
    /\ UNCHANGED <<env, fs, cache>>

\* The script runs again with no file in the uploader (the user removed the
\* file or reloaded the page): lines 81-99 draw the page afresh, line 101 is
\* false and the run is over.  Nothing of the last run stays bound or on the
\* page; the cache and the files are as they were.
Rerun ==
    /\ pc = "idle"
    /\ pc' = "idle"
    /\ tmp_file' = <<>>
    /\ video_path' = <<>>
    /\ audio_path' = <<>>
    /\ video_clip' = "unbound"
    /\ transcribed_text' = <<>>
    /\ prompt' = <<>>
    /\ response' = <<>>
    /\ response_text' = <<>>
    /\ analysis_result' = <<>>
    /\ exc' = <<>>
    /\ ui' = PageTop(api_key, ffmpeg_exists)
    /\ status_text' = <<>>
    /\ progress_bar' = <<>>
    /\ failed' = {}
    /\ trace' = <<>>
    /\ done' = <<>>
    /\ api_calls' = 0
    /\ UNCHANGED <<env, fs, cache>>

\* An exception no handler of the script catches ends the run; Streamlit
\* shows it on the page and goes on serving.
Uncaught(e, kind) ==
    /\ pc' = "idle"
    /\ ui' = Append(ui, Elem("exception", e.type, e.text))
    /\ failed' = failed \cup {kind}
    /\ exc' = <<>>

\* app.py lines 102-104, outside the try: create the temporary file, write
\* the upload into it, keep its name.  A failed write leaves the file.
WriteUpload ==
    /\ pc = "write_tmp"
    /\ LET free == {n \in TempNames : VideoPath(n) \notin fs}
       IN  IF free = {}
           THEN /\ Uncaught(Exception("FileExistsError", <<>>), "upload")
                /\ UNCHANGED <<fs, tmp_file, video_path>>
           ELSE \E n \in free, ok \in BOOLEAN :
                    /\ fs' = fs \cup {VideoPath(n)}
                    /\ tmp_file' = <<VideoPath(n)>>
                    /\ IF ok
                       THEN /\ video_path' = <<VideoPath(n)>>
                            /\ pc' = "open_clip"
                            /\ UNCHANGED <<ui, failed, exc>>
                       ELSE /\ Uncaught(Exception("OSError", <<"write">>), "upload")
                            /\ UNCHANGED video_path
    /\ UNCHANGED <<env, cache, audio_path, video_clip, transcribed_text, analysis,
                   status_text, progress_bar, trace, done>>

\* app.py lines 107-111: the progress bar, the status line, VideoFileClip.
OpenClip ==
    /\ pc = "open_clip"
    /\ progress_bar' = <<0>>
    /\ status_text' = <<Elem("text", "step1", <<>>)>>
    /\ trace' = Append(trace, "extract")
    /\ \E ok \in BOOLEAN :
          /\ pc' = TryNext(ok, "extract")
          /\ IF ok
             THEN /\ video_clip' = "open"
                  /\ UNCHANGED <<exc, failed>>
             ELSE /\ exc' = <<Exception("MediaError", <<"open">>)>>
                  /\ failed' = failed \cup {"decode"}
                  /\ UNCHANGED video_clip
    /\ UNCHANGED <<env, fs, cache, paths, transcribed_text, analysis, ui, done>>

\* app.py lines 112-114: the audio is written beside the video.  The clip may
\* have no audio track; a write that fails may leave a partial file.
ExtractAudio ==
    /\ pc = "extract"
    /\ audio_path' = <<AudioPathOf(video_path[1])>>
    /\ \E out \in {"ok", "no_audio", "failed", "failed_partial"} :
          /\ out = "ok" => video_clip = "open"
          /\ pc' = TryNext(out = "ok", "transcribe")
          /\ fs' = IF out \in {"ok", "failed_partial"}
                   THEN fs \cup {AudioPathOf(video_path[1])} ELSE fs
          /\ IF out = "ok"
             THEN /\ progress_bar' = <<33>>
                  /\ done' = Append(done, "extract")
                  /\ UNCHANGED <<exc, failed>>
             ELSE /\ exc' = <<Exception(IF out = "no_audio" THEN "AttributeError"
                                                             ELSE "MediaError", <<out>>)>>
                  /\ failed' = failed \cup {"decode"}
                  /\ UNCHANGED <<progress_bar, done>>
    /\ UNCHANGED <<env, cache, tmp_file, video_path, video_clip, transcribed_text,
                   analysis, ui, status_text, trace>>

\* app.py lines 116-118 and 21-26: transcribe_video(audio_path).  A path
\* st.cache_data has seen returns what it returned then; otherwise whisper
\* runs, and what it returns is remembered.
Transcribe ==
    /\ pc = "transcribe"
    /\ status_text' = <<Elem("text", "step2", <<>>)>>
    /\ trace' = Append(trace, "transcribe")
    /\ IF ~Bound(audio_path)
       THEN /\ pc' = "except"
            /\ exc' = <<Exception("NameError", <<"audio_path">>)>>
            /\ failed' = failed \cup {"transcribe"}
            /\ UNCHANGED <<cache, transcribed_text, progress_bar, done>>
       ELSE LET n == audio_path[1].name
            IN  IF Bound(cache[n])
                THEN /\ transcribed_text' = cache[n]
                     /\ pc' = TryNext(TRUE, "ga_call")
                     /\ progress_bar' = <<66>>
                     /\ done' = Append(done, "transcribe")
                     /\ UNCHANGED <<cache, exc, failed>>
                ELSE \/ \E t \in Transcripts :
                          /\ cache' = [cache EXCEPT ![n] = <<t>>]
                          /\ transcribed_text' = <<t>>
                          /\ pc' = TryNext(TRUE, "ga_call")
                          /\ progress_bar' = <<66>>
                          /\ done' = Append(done, "transcribe")
                          /\ UNCHANGED <<exc, failed>>
                     \/ /\ pc' = TryNext(FALSE, "ga_call")
                        /\ exc' = <<Exception("RuntimeError", <<"whisper">>)>>
                        /\ failed' = failed \cup {"transcribe"}
                        /\ UNCHANGED <<cache, transcribed_text, progress_bar, done>>
    /\ UNCHANGED <<env, fs, paths, video_clip, analysis, ui>>

\* app.py lines 120-121 and 30-59: generate_analysis builds the prompt around
\* the transcript and calls the model once.
GenerateContent ==
    /\ pc = "ga_call"
    /\ status_text' = <<Elem("text", "step3", <<>>)>>
    /\ trace' = Append(trace, "analyze")
    /\ prompt' = <<[num_keywords |-> NumKeywords, text |-> transcribed_text[1]]>>
    /\ api_calls' = api_calls + 1
    /\ \/ \E r \in Responses :
            /\ response' = <<r>>
            /\ pc' = "ga_recover"
            /\ UNCHANGED <<exc, failed>>
       \/ \E c \in ServiceCauses :
            /\ exc' = <<Exception("ServiceError", <<c>>)>>
            /\ failed' = failed \cup {"service"}
            /\ pc' = "ga_except"
            /\ UNCHANGED response
    /\ UNCHANGED <<env, fs, cache, paths, video_clip, transcribed_text, response_text,
                   analysis_result, ui, progress_bar, done>>

\* app.py lines 63-67.
RecoverResponse ==
    /\ pc = "ga_recover"
    /\ response_text' = <<RecoverText(response[1])>>
    /\ pc' = "ga_parse"
    /\ UNCHANGED <<env, fs, cache, paths, video_clip, transcribed_text, prompt, response,
                   analysis_result, api_calls, exc, ui, status_text, progress_bar,
                   failed, trace, done>>

\* app.py lines 69-71: json.loads, and the return to line 121.
ParseResponse ==
    /\ pc = "ga_parse"
    /\ LET r == Loads(response_text[1])
       IN  IF r.ok
           THEN /\ analysis_result' = <<r.val>>
                /\ pc' = "render"
                /\ done' = IF Truthy(r.val) THEN Append(done, "analyze") ELSE done
                /\ UNCHANGED <<exc, failed>>
           ELSE /\ exc' = <<Exception("JSONDecodeError", r.err)>>
                /\ failed' = failed \cup {"parse"}
                /\ pc' = "ga_except"
                /\ UNCHANGED <<analysis_result, done>>
    /\ UNCHANGED <<env, fs, cache, paths, video_clip, transcribed_text, prompt, response,
                   response_text, api_calls, ui, status_text, progress_bar, trace>>

\* app.py lines 73-75, and the return to line 121.
AnalysisExcept ==
    /\ pc = "ga_except"
    /\ LET h == AnalysisExceptHandler(exc[1])
       IN  /\ ui' = ui \o h.ui
           /\ analysis_result' = <<h.ret>>
    /\ exc' = <<>>
    /\ pc' = "render"
    /\ UNCHANGED <<env, fs, cache, paths, video_clip, transcribed_text, prompt, response,
                   response_text, api_calls, status_text, progress_bar, failed, trace,
                   done>>

\* app.py lines 122-139.  The variables of generate_analysis are gone by now.
Render ==
    /\ pc = "render"
    /\ progress_bar' = <<100>>
    /\ response' = <<>>
    /\ response_text' = <<>>
    /\ LET out == RenderResult(analysis_result[1], transcribed_text[1])
       IN  /\ ui' = ui \o out.ui
           /\ status_text' = out.status
           /\ trace' = IF Truthy(analysis_result[1]) THEN Append(trace, "render") ELSE trace
           /\ pc' = TryNext(out.exc = <<>>, "close")
           /\ exc' = out.exc
           /\ done' = IF Truthy(analysis_result[1]) /\ out.exc = <<>>
                      THEN Append(done, "render") ELSE done
           /\ failed' = failed \cup (IF out.exc # <<>> THEN {"render"} ELSE {})
                               \cup (IF ~Truthy(analysis_result[1]) THEN {"no_result"} ELSE {})
    /\ UNCHANGED <<env, fs, cache, paths, video_clip, transcribed_text, prompt,
                   analysis_result, api_calls>>

\* app.py lines 141-143.
Except ==
    /\ pc = "except"
    /\ ui' = ui \o PipelineExceptHandler(exc[1])
    /\ exc' = <<>>
    /\ pc' = "close"
    /\ UNCHANGED <<env, fs, cache, paths, video_clip, transcribed_text, analysis,
                   status_text, progress_bar, failed, trace, done>>

\* app.py lines 146-147.  An exception raised by close() leaves the finally
\* clause at once; what it leaves of the handle is up to the library.
CloseClip ==
    /\ pc = "close"
    /\ IF video_clip = "unbound"
       THEN /\ pc' = "rm_video"
            /\ UNCHANGED <<video_clip, ui, failed, exc>>
       ELSE \/ /\ video_clip' = "closed"
               /\ pc' = "rm_video"
               /\ UNCHANGED <<ui, failed, exc>>
            \/ /\ video_clip' \in {"open", "closed"}
               /\ Uncaught(Exception("OSError", <<"close">>), "close")
    /\ UNCHANGED <<env, fs, cache, paths, transcribed_text, analysis, status_text,
                   progress_bar, trace, done>>

\* app.py lines 148-149.
RemoveVideo ==
    /\ pc = "rm_video"
    /\ fs' = IF Bound(video_path) /\ video_path[1] \in fs THEN fs \ {video_path[1]} ELSE fs
    /\ pc' = "rm_audio"
    /\ UNCHANGED <<env, cache, paths, video_clip, transcribed_text, analysis, exc, ui,
                   status_text, progress_bar, failed, trace, done>>

\* app.py lines 150-151; the run ends.
RemoveAudio ==
    /\ pc = "rm_audio"
    /\ fs' = IF Bound(audio_path) /\ audio_path[1] \in fs THEN fs \ {audio_path[1]} ELSE fs
    /\ pc' = "idle"
    /\ UNCHANGED <<env, cache, paths, video_clip, transcribed_text, analysis, exc, ui,
                   status_text, progress_bar, failed, trace, done>>

\* The steps of one run of the script.
Pipeline ==
    \/ WriteUpload
    \/ OpenClip
    \/ ExtractAudio
    \/ Transcribe
    \/ GenerateContent
    \/ RecoverResponse
    \/ ParseResponse
    \/ AnalysisExcept
    \/ Render
    \/ Except
    \/ CloseClip
    \/ RemoveVideo
    \/ RemoveAudio

Next == Upload \/ Rerun \/ Pipeline

Spec == Init /\ [][Next]_vars

\* Every call the script makes returns or raises: a run that has started
\* goes on to its end.  When the user uploads, removes the file or reloads
\* the page is up to the user.
FairSpec == Spec /\ WF_vars(Pipeline)

\* ------------------------------------------------------------ properties

Range(f) == {f[i] : i \in DOMAIN f}

IsPrefix(a, b) == Len(a) <= Len(b) /\ SubSeq(b, 1, Len(a)) = a

\* The first k entries of a sequence, all of it when it has fewer.
FirstK(items, k) == SubSeq(items, 1, IF k < Len(items) THEN k ELSE Len(items))

\* A field of the analysis is on the page.
FieldRendered(m) == \E i \in 1..Len(ui) : ui[i].m = m /\ ui[i].w \in {"markdown", "info"}

\* Some part of an analysis result is on the page.
ResultRendered ==
    \/ \E i \in 1..Len(ui) : ui[i].m \in {"categories", "summary", "keywords", "transcript"}
    \/ Bound(status_text) /\ status_text[1].w = "success"

\* An error message with the given text is on the page.
ErrorShown(m) == \E i \in 1..Len(ui) : ui[i].w = "error" /\ ui[i].m = m

\* The result generate_analysis has just handed to line 121 came from a
\* response that parsed.
AnalysisReturned ==
    pc = "render" /\ Bound(response_text) /\ Bound(analysis_result) /\ "parse" \notin failed

\* C1: for every response that parses as a JSON object with a categories
\* list, and every max_categories k, the categories handed to the caller are
\* the first k upstream categories in their order, so at most k of them.
C1_CategoriesTruncated ==
    (/\ AnalysisReturned
     /\ HasKey(analysis_result[1], KeyCategories)
     /\ DictGet(analysis_result[1], KeyCategories).t = "list")
    => LET upstream == DictGet(json_loads(response_text[1]).val, KeyCategories).v
           handed == DictGet(analysis_result[1], KeyCategories).v
       IN  \A k \in 1..MaxK : Len(handed) <= k /\ handed = FirstK(upstream, k)

\* C2: once the run is over, the temporary video file and the temporary
\* audio file of the upload are gone, however the run ended.
C2_TempFilesRemoved ==
    (pc = "idle" /\ Bound(tmp_file))
    => (tmp_file[1] \notin fs /\ AudioPathOf(tmp_file[1]) \notin fs)

\* C3: the media handle is released before its backing file is deleted: the
\* file exists while the handle is open, the handle is no longer open when
\* the deletions run, and no run ends with the handle open.
C3_HandleReleasedFirst ==
    /\ video_clip = "open" => (Bound(video_path) /\ video_path[1] \in fs)
    /\ pc \in {"rm_video", "rm_audio"} => video_clip # "open"
    /\ pc = "idle" => video_clip # "open"

\* C4: a transcript of length 0 is rejected: the model is never called for
\* it and nothing is rendered for it.
C4_EmptyTranscriptRejected ==
    (Bound(transcribed_text) /\ transcribed_text[1] = <<>>)
    => (api_calls = 0 /\ ~Bound(prompt) /\ ~ResultRendered)

\* What generate_analysis signals when the text recovered from response r
\* does not parse.
ParseFailureSignal(r) ==
    AnalysisExceptHandler(Exception("JSONDecodeError", json_loads(RecoverText(r)).err))

\* C5: when the recovered text is not valid JSON, the failure signalled
\* yields no partial result and the raw response can be retrieved from it:
\* no other response gives the same signal.
C5_ParseErrorCarriesRaw ==
    (pc = "render" /\ Bound(response) /\ "parse" \in failed)
    => /\ analysis_result = <<None>>
       /\ \A r \in Responses :
            (/\ ~json_loads(RecoverText(r)).ok
             /\ ParseFailureSignal(r) = [ui |-> <<ui[Len(ui)]>>, ret |-> analysis_result[1]])
            => r = response[1]

\* The kind of a signal of generate_analysis: the value returned and the
\* message shown, leaving out the text of the cause formatted into it.
SignalKind(h) == [ret |-> h.ret, m |-> h.ui[1].m]

\* C6: a failed model call is signalled with its cause, as an outcome of
\* another kind than a parse failure, and the model is called at most once.
C6_ServiceErrorDistinct ==
    /\ api_calls <= 1
    /\ (pc = "render" /\ "service" \in failed)
       => /\ \E c \in ServiceCauses : ui[Len(ui)].arg = <<c>>
          /\ \A r \in Responses :
                ~json_loads(RecoverText(r)).ok
                => SignalKind([ui |-> <<ui[Len(ui)]>>, ret |-> analysis_result[1]])
                   # SignalKind(ParseFailureSignal(r))

\* C7: of the trimmed response, one leading and one trailing fence marker
\* are removed when both are there, nothing when neither is; when one of the
\* two is there and what is left of the text is not valid JSON, the parse
\* error is what comes out, not a result.
C7_FenceStripping ==
    Bound(response) =>
        LET t == Strip(response[1])
            lead == StartsWith(t, FenceOpen)
            trail == EndsWith(t, FenceClose)
            rest == IF lead THEN Slice(t, Len(FenceOpen), Len(t))
                    ELSE Slice(t, 0, Len(t) - Len(FenceClose))
        IN  /\ (Bound(response_text) /\ lead /\ trail)
               => FenceOpen \o response_text[1] \o FenceClose = t
            /\ (Bound(response_text) /\ ~lead /\ ~trail) => response_text[1] = t
            /\ (lead # trail /\ ~json_loads(rest).ok)
               => /\ pc = "ga_except" => exc[1].type = "JSONDecodeError"
                  /\ pc = "render" => (analysis_result = <<None>> /\ "parse" \in failed)

\* C7 happens: a response fenced twice has had one fence removed on each side.
C7_Witness ==
    /\ pc = "ga_parse"
    /\ StartsWith(Strip(response[1]), FenceOpen \o FenceOpen)
    /\ EndsWith(Strip(response[1]), FenceClose \o FenceClose)
    /\ StartsWith(response_text[1], FenceOpen)
    /\ EndsWith(response_text[1], FenceClose)
    /\ Len(response_text[1]) < Len(Strip(response[1]))

\* C8: a parsed JSON object lacking summary, keywords or categories is
\* rendered without an error: every field it has is shown.
C8_PartialRender ==
    (/\ pc \in {"except", "close"}
     /\ progress_bar = <<100>>
     /\ "parse" \notin failed /\ "service" \notin failed
     /\ analysis_result[1].t = "dict")
    => /\ exc = <<>>
       /\ status_text[1].w # "error"
       /\ \A i \in 1..Len(ui) : ui[i].w # "error"
       /\ HasKey(analysis_result[1], KeySummary) => FieldRendered("summary")
       /\ HasKey(analysis_result[1], KeyKeywords) => FieldRendered("keywords")
       /\ HasKey(analysis_result[1], KeyCategories) => FieldRendered("categories")

\* The three kinds of failure: media decode, analysis service, analysis parse.
ThreeKinds == {"decode", "service", "parse"}

\* The message the script shows for a failure of each kind it has had.
ErrorVisible ==
    /\ "decode" \in failed => ErrorShown("processing_error")
    /\ "service" \in failed => ErrorShown("gemini_or_parse_error")
    /\ "parse" \in failed => ErrorShown("gemini_or_parse_error")

\* The run is over and the page offers the uploader again.
ReadyForUpload == pc = "idle" /\ UploaderShown /\ ENABLED Upload

\* C9: a failure of one of the three kinds leads to its error message being
\* on the page with no result rendered and the script ready for the next
\* upload; no result is rendered at any time after the failure.
C9_FailureReported ==
    /\ []((failed \cap ThreeKinds # {}) => ~ResultRendered)
    /\ (failed \cap ThreeKinds # {})
       ~> (ReadyForUpload /\ ErrorVisible /\ ~ResultRendered /\ failed \cap ThreeKinds # {})

\* C9 happens: a run in which the response did not parse is over, its error
\* is on the page and the uploader is offered.
C9_Witness ==
    /\ ReadyForUpload
    /\ "parse" \in failed
    /\ ErrorShown("gemini_or_parse_error")
    /\ ~ResultRendered

\* The stages in the order of the script.
StageOrder == <<"extract", "transcribe", "analyze", "render">>

\* C10: the stages start in the order extraction, transcription, analysis,
\* render, each at most once and each only after the one before it has
\* succeeded; the model is called at most once, and only with a transcript;
\* a result is on the page only when the analysis returned one.
C10_StagesInOrder ==
    /\ IsPrefix(trace, StageOrder)
    /\ \A i \in 1..(Len(trace) - 1) : trace[i] \in Range(done)
    /\ Bound(transcribed_text) => "extract" \in Range(done)
    /\ api_calls = (IF "analyze" \in Range(trace) THEN 1 ELSE 0)
    /\ api_calls > 0 => (Bound(transcribed_text) /\ "transcribe" \in Range(done))
    /\ ResultRendered
       => (Bound(analysis_result) /\ Truthy(analysis_result[1]) /\ "analyze" \in Range(done))

\* C10 happens: a run went through all four stages.
C10_Witness ==
    /\ pc = "idle"
    /\ trace = StageOrder
    /\ done = StageOrder
    /\ api_calls = 1
    /\ FieldRendered("categories")

====
